---- MODULE Spec2Model ----
(***************************************************************************)
(* Model of src/src/components/ProductDetail.tsx: the ProductDetail        *)
(* component's view state (product, loading, error, isWishlisted), its     *)
(* mount effect (fetchProduct), its three handlers and its render          *)
(* branches.                                                               *)
(*                                                                         *)
(* Representation.  A value of type `T | null` is a set with at most one   *)
(* element: {} is null, {v} is the value v.  A string is a TLA+ string;    *)
(* template literals are built with \o and numbers are formatted with      *)
(* ToString.  A price is kept in hundredths (109.95 is 10995).             *)
(* Each state setter that runs in the continuation of an await is a step   *)
(* of its own (outside an event handler the runtime may render between two *)
(* setters); setters inside one event handler are one step.                *)
(***************************************************************************)
EXTENDS Integers, Sequences, FiniteSets, TLC

VARIABLES product, loading, error, isWishlisted,
          mounted, effectPending, effectDeps,
          fetches, fetchCount,
          toasts, shares, clipboard, hasShare, clicks

vars == <<product, loading, error, isWishlisted, mounted, effectPending,
          effectDeps, fetches, fetchCount, toasts, shares, clipboard,
          hasShare, clicks>>

(* ------------------------------ bounds --------------------------------- *)

MaxFetches == 2
MaxClicks == 3

(* ------------------------- environment inputs -------------------------- *)

Statuses == {199, 200, 299, 300, 404, 500}

Products ==
  { [id |-> 1, title |-> "Fjallraven Backpack", price |-> 10995,
     description |-> "Your perfect pack", category |-> "men's clothing",
     image |-> "https://img/1", rating |-> [rate |-> 39, count |-> 120]],
    [id |-> 1, title |-> "Mug", price |-> 0,
     description |-> "", category |-> "kitchen",
     image |-> "https://img/2", rating |-> [rate |-> 0, count |-> 0]],
    [id |-> 1, title |-> "Slim Fit T-Shirt", price |-> 2230,
     description |-> "Slim-fitting style", category |-> "men's clothing",
     image |-> "https://img/3", rating |-> [rate |-> 41, count |-> 259]] }

\* what response.json() can resolve to: null or a record of the Product shape
Bodies == {{}} \cup { {p} : p \in Products }

\* what an awaited promise can reject with: an Error (with its message) or
\* a value that is not an Error
Faults ==
  { [isError |-> TRUE,  message |-> "Failed to fetch"],
    [isError |-> TRUE,  message |-> "Unexpected token < in JSON"],
    [isError |-> TRUE,  message |-> ""],
    [isError |-> FALSE, message |-> "timeout"] }

Href == "https://shop.example/product/1"

(* ----------------------------- pure parts ------------------------------ *)

Contains(s, sub) ==
  \E i \in 1..(Len(s) - Len(sub) + 1) : SubSeq(s, i, i + Len(sub) - 1) = sub

\* JavaScript truthiness of a `string | null` value: null and "" are falsy
Truthy(e) == e # {} /\ e # {""}

TheValue(v) == CHOOSE x \in v : TRUE

\* variant: only statuses from 400 on are treated as failures
okBelow400(status) == status < 400

ok(status) == status >= 200 /\ status <= 299

HttpError(status) ==
  [isError |-> TRUE, message |-> "HTTP error! status: " \o ToString(status)]

errorMessageOf(err) ==
  IF err.isError THEN err.message ELSE "Failed to fetch product"

\* `${product?.title}`
TitleOf(p) == IF p = {} THEN "undefined" ELSE TheValue(p).title

\* `product?.description`
DescriptionOf(p) == IF p = {} THEN {} ELSE {TheValue(p).description}

Toast(t, d, v) == [title |-> t, description |-> d, variant |-> v]

NoVariant == "unset"

\* variant: the notification carries a fixed text, not the stored message
ErrorToastGeneric(msg) == Toast("Error", "Failed to fetch product", "destructive")

ErrorToast(msg) == Toast("Error", msg, "destructive")

AddToCartToast(p) ==
  Toast("Added to Cart", TitleOf(p) \o " has been added to your cart!", NoVariant)

\* variant: the handler sets the flag instead of flipping it
nextWishlistedSetTrue(w) == TRUE

nextWishlisted(w) == ~w

\* variant: the two titles are exchanged
wishlistTitleSwapped(w) == IF w THEN "Added to Wishlist" ELSE "Removed from Wishlist"

wishlistTitle(w) == IF w THEN "Removed from Wishlist" ELSE "Added to Wishlist"

WishlistToast(p, w) ==
  Toast(wishlistTitle(w),
        TitleOf(p) \o " has been "
          \o (IF w THEN "removed from" ELSE "added to") \o " your wishlist!",
        NoVariant)

SharedToast == Toast("Shared Successfully", "Product shared successfully!", NoVariant)

CopiedToast == Toast("Link Copied", "Product link copied to clipboard!", NoVariant)

ShareFailedToast == Toast("Share Failed", "Unable to share or copy link", "destructive")

Glyph(w) == IF w THEN "U+2665" ELSE "U+2661"

\* (product.price * 83).toFixed(0): the nearest whole number, a half rounded
\* up; price is in hundredths and not negative
primaryPrice(price) == (price * 83 + 50) \div 100

\* variant: the markup is applied to the unconverted price
strikePriceNoConversion(price) == (price * 12 + 500) \div 1000

\* (product.price * 83 * 1.2).toFixed(0)
strikePrice(price) == (price * 83 * 12 + 500) \div 1000

\* variant: the error branch is tested before the loading branch
RenderBranchErrorFirst(l, e, p) ==
  IF Truthy(e) THEN "Error"
  ELSE IF l THEN "Loading"
  ELSE IF p = {} THEN "Nothing"
  ELSE "Product"

RenderBranch(l, e, p) ==
  IF l THEN "Loading"
  ELSE IF Truthy(e) THEN "Error"
  ELSE IF p = {} THEN "Nothing"
  ELSE "Product"

view == RenderBranch(loading, error, product)

\* the two amounts the product view shows, <<primary, strike-through>>
shownPrices ==
  IF view = "Product"
  THEN {<<primaryPrice(TheValue(product).price), strikePrice(TheValue(product).price)>>}
  ELSE {}

\* the identity of the `toast` function useToast() returns in a render
useToast == "toast"

\* variant: the effect has no dependency array and runs after every render
depsChangedAlways(prev, next) == TRUE

depsChanged(prev, next) == prev # next

(* ------------------------------- state --------------------------------- *)

NoFetch == [pc |-> "none", response |-> {}, data |-> {}, err |-> {}]

Init ==
  /\ product = {}
  /\ loading = TRUE
  /\ error = {}
  /\ isWishlisted = FALSE
  /\ mounted = TRUE
  /\ effectPending = TRUE
  /\ effectDeps = <<useToast>>
  /\ fetches = [i \in 1..MaxFetches |-> NoFetch]
  /\ fetchCount = 0
  /\ toasts = <<>>
  /\ shares = <<>>
  /\ clipboard = {}
  /\ hasShare \in BOOLEAN
  /\ clicks = 0

\* a render of the mounted component: the effect is scheduled again when its
\* dependency array differs from the one of the previous render
Rerender ==
  IF mounted
  THEN /\ effectDeps' = <<useToast>>
       /\ effectPending' = (effectPending \/ depsChanged(effectDeps, <<useToast>>))
  ELSE UNCHANGED <<effectDeps, effectPending>>

(* ---------------------- mount effect: fetchProduct --------------------- *)

RunEffect ==
  /\ mounted
  /\ effectPending
  /\ fetchCount < MaxFetches
  /\ loading' = TRUE
  /\ error' = {}
  /\ fetchCount' = fetchCount + 1
  /\ fetches' = [fetches EXCEPT ![fetchCount + 1] =
                   [pc |-> "awaitFetch", response |-> {}, data |-> {}, err |-> {}]]
  /\ effectDeps' = <<useToast>>
  /\ effectPending' = FALSE
  /\ UNCHANGED <<product, isWishlisted, mounted, toasts, shares, clipboard,
                 hasShare, clicks>>

\* catch (err): setError(errorMessage)
Catch(i, e) ==
  /\ error' = {errorMessageOf(e)}
  /\ fetches' = [fetches EXCEPT ![i].pc = "caught", ![i].err = {e}]
  /\ Rerender
  /\ UNCHANGED <<product, loading, isWishlisted, mounted, fetchCount, toasts,
                 shares, clipboard, hasShare, clicks>>

FetchResolve(i, status) ==
  /\ fetches[i].pc = "awaitFetch"
  /\ IF ok(status)
     THEN /\ fetches' = [fetches EXCEPT ![i].pc = "awaitJson",
                                        ![i].response = {status}]
          /\ UNCHANGED <<product, loading, error, isWishlisted, mounted,
                         effectPending, effectDeps, fetchCount, toasts, shares,
                         clipboard, hasShare, clicks>>
     ELSE /\ error' = {errorMessageOf(HttpError(status))}
          /\ fetches' = [fetches EXCEPT ![i].pc = "caught",
                                        ![i].response = {status},
                                        ![i].err = {HttpError(status)}]
          /\ Rerender
          /\ UNCHANGED <<product, loading, isWishlisted, mounted, fetchCount,
                         toasts, shares, clipboard, hasShare, clicks>>

FetchReject(i, fault) ==
  /\ fetches[i].pc = "awaitFetch"
  /\ Catch(i, fault)

\* variant: the decoded record is not stored
JsonResolveNoStore(i, body) ==
  /\ fetches[i].pc = "awaitJson"
  /\ fetches' = [fetches EXCEPT ![i].pc = "finally", ![i].data = {body}]
  /\ Rerender
  /\ UNCHANGED <<product, loading, error, isWishlisted, mounted, fetchCount,
                 toasts, shares, clipboard, hasShare, clicks>>

JsonResolve(i, body) ==
  /\ fetches[i].pc = "awaitJson"
  /\ product' = body
  /\ fetches' = [fetches EXCEPT ![i].pc = "finally", ![i].data = {body}]
  /\ Rerender
  /\ UNCHANGED <<loading, error, isWishlisted, mounted, fetchCount, toasts,
                 shares, clipboard, hasShare, clicks>>

JsonReject(i, fault) ==
  /\ fetches[i].pc = "awaitJson"
  /\ Catch(i, fault)

\* variant: setLoading(false) sits at the end of the try block only, so the
\* failure path ends without it
CatchToastNoFinally(i) ==
  /\ fetches[i].pc = "caught"
  /\ toasts' = Append(toasts, ErrorToast(errorMessageOf(TheValue(fetches[i].err))))
  /\ fetches' = [fetches EXCEPT ![i].pc = "done"]
  /\ Rerender
  /\ UNCHANGED <<product, loading, error, isWishlisted, mounted, fetchCount,
                 shares, clipboard, hasShare, clicks>>

\* catch (err): toast({title: "Error", description: errorMessage, ...})
CatchToast(i) ==
  /\ fetches[i].pc = "caught"
  /\ toasts' = Append(toasts, ErrorToast(errorMessageOf(TheValue(fetches[i].err))))
  /\ fetches' = [fetches EXCEPT ![i].pc = "finally"]
  /\ Rerender
  /\ UNCHANGED <<product, loading, error, isWishlisted, mounted, fetchCount,
                 shares, clipboard, hasShare, clicks>>

Finally(i) ==
  /\ fetches[i].pc = "finally"
  /\ loading' = FALSE
  /\ fetches' = [fetches EXCEPT ![i].pc = "done"]
  /\ Rerender
  /\ UNCHANGED <<product, error, isWishlisted, mounted, fetchCount, toasts,
                 shares, clipboard, hasShare, clicks>>

(* ------------------------------ handlers ------------------------------- *)

\* variant: the buttons are rendered in every branch
CanClickAnyView == mounted /\ clicks < MaxClicks

\* the three buttons exist only in the product view of a mounted component
CanClick == mounted /\ view = "Product" /\ clicks < MaxClicks

handleAddToCart ==
  /\ CanClick
  /\ toasts' = Append(toasts, AddToCartToast(product))
  /\ clicks' = clicks + 1
  /\ Rerender
  /\ UNCHANGED <<product, loading, error, isWishlisted, mounted, fetches,
                 fetchCount, shares, clipboard, hasShare>>

handleWishlist ==
  /\ CanClick
  /\ isWishlisted' = nextWishlisted(isWishlisted)
  /\ toasts' = Append(toasts, WishlistToast(product, isWishlisted))
  /\ clicks' = clicks + 1
  /\ Rerender
  /\ UNCHANGED <<product, loading, error, mounted, fetches, fetchCount,
                 shares, clipboard, hasShare>>

shareData == [title |-> {TitleOf(product)}, text |-> DescriptionOf(product),
              url |-> Href]

handleShare ==
  /\ CanClick
  /\ shares' = Append(shares,
                 [kind |-> IF hasShare THEN "native" ELSE "clipboard",
                  pc |-> "pending", data |-> shareData])
  /\ clicks' = clicks + 1
  /\ UNCHANGED <<product, loading, error, isWishlisted, mounted, effectPending,
                 effectDeps, fetches, fetchCount, toasts, clipboard, hasShare>>

ShareResolve(k) ==
  /\ k \in 1..Len(shares)
  /\ shares[k].kind = "native"
  /\ shares[k].pc = "pending"
  /\ shares' = [shares EXCEPT ![k].pc = "ok"]
  /\ toasts' = Append(toasts, SharedToast)
  /\ Rerender
  /\ UNCHANGED <<product, loading, error, isWishlisted, mounted, fetches,
                 fetchCount, clipboard, hasShare, clicks>>

\* variant: the native-share failure is reported like the clipboard failure
ShareRejectNotifies(k) ==
  /\ k \in 1..Len(shares)
  /\ shares[k].kind = "native"
  /\ shares[k].pc = "pending"
  /\ shares' = [shares EXCEPT ![k].pc = "failed"]
  /\ toasts' = Append(toasts, ShareFailedToast)
  /\ Rerender
  /\ UNCHANGED <<product, loading, error, isWishlisted, mounted, fetches,
                 fetchCount, clipboard, hasShare, clicks>>

ShareReject(k) ==
  /\ k \in 1..Len(shares)
  /\ shares[k].kind = "native"
  /\ shares[k].pc = "pending"
  /\ shares' = [shares EXCEPT ![k].pc = "failed"]
  /\ UNCHANGED <<product, loading, error, isWishlisted, mounted, effectPending,
                 effectDeps, fetches, fetchCount, toasts, clipboard, hasShare,
                 clicks>>

ClipboardResolve(k) ==
  /\ k \in 1..Len(shares)
  /\ shares[k].kind = "clipboard"
  /\ shares[k].pc = "pending"
  /\ shares' = [shares EXCEPT ![k].pc = "ok"]
  /\ clipboard' = {Href}
  /\ toasts' = Append(toasts, CopiedToast)
  /\ Rerender
  /\ UNCHANGED <<product, loading, error, isWishlisted, mounted, fetches,
                 fetchCount, hasShare, clicks>>

\* variant: the clipboard failure is swallowed like the native-share failure
ClipboardRejectSilent(k) ==
  /\ k \in 1..Len(shares)
  /\ shares[k].kind = "clipboard"
  /\ shares[k].pc = "pending"
  /\ shares' = [shares EXCEPT ![k].pc = "failed"]
  /\ UNCHANGED <<product, loading, error, isWishlisted, mounted, effectPending,
                 effectDeps, fetches, fetchCount, toasts, clipboard, hasShare,
                 clicks>>

\* variant: the clipboard failure is also stored in the error state
ClipboardRejectSetsError(k) ==
  /\ k \in 1..Len(shares)
  /\ shares[k].kind = "clipboard"
  /\ shares[k].pc = "pending"
  /\ shares' = [shares EXCEPT ![k].pc = "failed"]
  /\ toasts' = Append(toasts, ShareFailedToast)
  /\ error' = {"Unable to share or copy link"}
  /\ Rerender
  /\ UNCHANGED <<product, loading, isWishlisted, mounted, fetches,
                 fetchCount, clipboard, hasShare, clicks>>

ClipboardReject(k) ==
  /\ k \in 1..Len(shares)
  /\ shares[k].kind = "clipboard"
  /\ shares[k].pc = "pending"
  /\ shares' = [shares EXCEPT ![k].pc = "failed"]
  /\ toasts' = Append(toasts, ShareFailedToast)
  /\ Rerender
  /\ UNCHANGED <<product, loading, error, isWishlisted, mounted, fetches,
                 fetchCount, clipboard, hasShare, clicks>>

\* variant: the effect returns a cleanup function that cancels the request
UnmountCancels ==
  /\ mounted
  /\ ~effectPending
  /\ mounted' = FALSE
  /\ fetches' = [i \in 1..MaxFetches |->
                   IF fetches[i].pc \in {"awaitFetch", "awaitJson"}
                   THEN [fetches[i] EXCEPT !.pc = "cancelled"]
                   ELSE fetches[i]]
  /\ UNCHANGED <<product, loading, error, isWishlisted, effectPending,
                 effectDeps, fetchCount, toasts, shares, clipboard,
                 hasShare, clicks>>

\* the component is torn down; the effect returns no cleanup function
Unmount ==
  /\ mounted
  /\ ~effectPending
  /\ mounted' = FALSE
  /\ UNCHANGED <<product, loading, error, isWishlisted, effectPending,
                 effectDeps, fetches, fetchCount, toasts, shares, clipboard,
                 hasShare, clicks>>

(* --------------------------- specification ----------------------------- *)

FetchSettle ==
  \E i \in 1..MaxFetches :
    \/ \E s \in Statuses : FetchResolve(i, s)
    \/ \E f \in Faults : FetchReject(i, f)

JsonSettle ==
  \E i \in 1..MaxFetches :
    \/ \E b \in Bodies : JsonResolve(i, b)
    \/ \E f \in Faults : JsonReject(i, f)

FetchContinue ==
  \E i \in 1..MaxFetches : CatchToast(i) \/ Finally(i)

ShareSettle ==
  \E k \in 1..MaxClicks :
    ShareResolve(k) \/ ShareReject(k) \/ ClipboardResolve(k) \/ ClipboardReject(k)

UserEvent == handleAddToCart \/ handleWishlist \/ handleShare

Next ==
  \/ RunEffect
  \/ FetchSettle
  \/ JsonSettle
  \/ FetchContinue
  \/ UserEvent
  \/ ShareSettle
  \/ Unmount

Spec == Init /\ [][Next]_vars

\* the runtime runs a scheduled effect and the continuation of a settled
\* promise; the request itself is assumed to settle
LiveSpec ==
  /\ Spec
  /\ WF_vars(RunEffect)
  /\ WF_vars(FetchSettle)
  /\ WF_vars(JsonSettle)
  /\ WF_vars(FetchContinue)

(* ------------------------------ properties ----------------------------- *)

Settled(i) == fetches[i].pc = "done"

Non2xx(status) == status < 200 \/ status > 299

Destructive == { k \in DOMAIN toasts : toasts[k].variant = "destructive" }

WishlistToggles ==
  Cardinality({ k \in DOMAIN toasts :
                  toasts[k].title \in {"Added to Wishlist", "Removed from Wishlist"} })

\* C1: in every state of a mounted component the render branch is selected by
\* strict precedence: Loading whenever loading is true, whatever error and
\* product are; otherwise Error whenever error is set (a non-empty message,
\* which is what the branch tests); otherwise Product when product is present;
\* and nothing is rendered exactly when loading is false, error is unset and
\* product is null.
C1_RenderPrecedence ==
  mounted =>
    /\ view \in {"Loading", "Error", "Product", "Nothing"}
    /\ loading => view = "Loading"
    /\ (~loading /\ error # {} /\ error # {""}) => view = "Error"
    /\ (~loading /\ (error = {} \/ error = {""}) /\ product # {}) => view = "Product"
    /\ view = "Nothing" <=> (~loading /\ (error = {} \/ error = {""}) /\ product = {})

\* the precedence case: loading is still true while error is already set
C1_Witness == mounted /\ loading /\ error # {} /\ error # {""} /\ view = "Loading"

\* C2: loading starts true and, once false, is never true again in this mount:
\* no user event, re-render or fetch completion takes the view from Success or
\* Error back to Loading.
C2_LoadingFalseOnce ==
  [][ /\ (fetchCount = 0) => loading
      /\ ~loading => ~loading' ]_vars

\* the fetch has settled and user events and re-renders have followed
C2_Witness == ~loading /\ Settled(1) /\ clicks >= 2 /\ Len(toasts) >= 2

\* C3: exactly one fetch is issued per mount: none before the mount effect has
\* run, one once it has, and never a second one whatever re-renders and user
\* events follow.
C3_OneFetchPerMount == fetchCount = (IF effectPending THEN 0 ELSE 1)

\* one request was started and add-to-cart, wishlist and share have all fired
C3_Witness ==
  /\ fetchCount = 1
  /\ isWishlisted
  /\ Len(shares) >= 1
  /\ \E k \in DOMAIN toasts : toasts[k].title = "Added to Cart"

\* C4: for every non-2xx response status, once the fetch has settled the
\* rendered view is Error and the message shown contains the status number.
C4_Non2xxShowsStatus ==
  \A i \in 1..MaxFetches :
    (Settled(i) /\ fetches[i].response # {} /\ Non2xx(TheValue(fetches[i].response)))
      => /\ view = "Error"
         /\ error # {}
         /\ Contains(TheValue(error), ToString(TheValue(fetches[i].response)))

\* a redirect status (300) settled as a failure
C4_Witness == Settled(1) /\ fetches[1].response = {300} /\ view = "Error"

\* C5: every failed fetch (non-2xx status, transport or decode fault) emits a
\* notification of variant "destructive" whose description is the string stored
\* in error, and exactly one such notification exists in the mount.
C5_FailureNotifiesOnce ==
  \A i \in 1..MaxFetches :
    (fetches[i].pc \in {"finally", "done"} /\ fetches[i].err # {})
      => /\ error # {}
         /\ Cardinality(Destructive) = 1
         /\ \A k \in Destructive :
              /\ toasts[k].title = "Error"
              /\ toasts[k].description = TheValue(error)

\* a decode fault after a 2xx response was notified
C5_Witness ==
  /\ Settled(1)
  /\ fetches[1].response = {200}
  /\ fetches[1].err = {[isError |-> TRUE, message |-> "Unexpected token < in JSON"]}
  /\ Len(toasts) = 1

\* C6: for every 2xx response with a well-formed body, once the fetch has
\* settled the rendered view is Success, product is the decoded record and
\* error is null.
C6_SuccessStoresRecord ==
  \A i \in 1..MaxFetches :
    (Settled(i) /\ fetches[i].data # {} /\ TheValue(fetches[i].data) # {})
      => /\ fetches[i].response # {} /\ ~Non2xx(TheValue(fetches[i].response))
         /\ view = "Product"
         /\ product = TheValue(fetches[i].data)
         /\ error = {}

\* a 299 response with a product body has settled
C6_Witness ==
  /\ Settled(1)
  /\ fetches[1].response = {299}
  /\ product # {}
  /\ TitleOf(product) = "Fjallraven Backpack"

\* C7: provided the request settles, loading is eventually false in every
\* outcome of the fetch (success, non-2xx status, transport or decode fault).
C7_LoadingEventuallyFalse == <>(~loading)

\* loading was set false on the failure path
C7_Witness == ~loading /\ Settled(1) /\ fetches[1].err # {}

\* C8: no user event (a button press, or the completion of the share it
\* started) changes product, loading or error, and wishlisted changes only in
\* a wishlist toggle.
C8_UserEventsFrame ==
  [][ /\ (clicks' # clicks \/ shares' # shares)
         => UNCHANGED <<product, loading, error>>
      /\ (isWishlisted' # isWishlisted)
         => /\ clicks' = clicks + 1
            /\ Len(toasts') = Len(toasts) + 1
            /\ toasts'[Len(toasts')].title
                 \in {"Added to Wishlist", "Removed from Wishlist"} ]_vars

\* all three buttons were pressed and a share has failed
C8_Witness ==
  /\ clicks >= 3
  /\ isWishlisted
  /\ \E k \in DOMAIN shares : shares[k].pc = "failed"
  /\ \E k \in DOMAIN toasts : toasts[k].title = "Added to Cart"

\* C9: wishlisted starts false and every activation of the wishlist button
\* flips it: after n activations it is true iff n is odd, so after two it is
\* false again and the glyph is the original one.
C9_WishlistParity ==
  /\ isWishlisted = (WishlistToggles % 2 = 1)
  /\ (WishlistToggles % 2 = 0) => Glyph(isWishlisted) = "U+2661"
  /\ (WishlistToggles % 2 = 1) => Glyph(isWishlisted) = "U+2665"

\* two activations from the initial state
C9_Witness == WishlistToggles = 2 /\ ~isWishlisted

\* C10: each wishlist toggle emits exactly one notification, and its text
\* matches the resulting state: "Added to Wishlist" iff wishlisted is true
\* after the toggle, "Removed from Wishlist" iff it is false.
C10_WishlistToastMatches ==
  [][ handleWishlist
      => /\ Len(toasts') = Len(toasts) + 1
         /\ SubSeq(toasts', 1, Len(toasts)) = toasts
         /\ LET t == toasts'[Len(toasts')]
            IN /\ (t.title = "Added to Wishlist") <=> isWishlisted'
               /\ (t.title = "Removed from Wishlist") <=> ~isWishlisted'
               /\ Contains(t.description, "added to") <=> isWishlisted'
               /\ Contains(t.description, "removed from") <=> ~isWishlisted' ]_vars

\* an add and a remove have both been notified
C10_Witness ==
  /\ \E k \in DOMAIN toasts : toasts[k].title = "Added to Wishlist"
  /\ \E k \in DOMAIN toasts : toasts[k].title = "Removed from Wishlist"

\* share k goes from pending to the given outcome in this step
ShareStep(k, kind, outcome) ==
  /\ k \in DOMAIN shares
  /\ shares[k].kind = kind
  /\ shares[k].pc = "pending"
  /\ shares'[k].pc = outcome

\* C11: without a platform share capability, share writes the current page URL
\* to the clipboard; a failed write emits one destructive notification and
\* changes nothing else (product, loading, error, wishlisted, clipboard); a
\* successful write emits one non-destructive "copied" notification.
C11_ClipboardFallback ==
  [][ /\ (~hasShare /\ Len(shares') = Len(shares) + 1)
         => /\ shares'[Len(shares')].kind = "clipboard"
            /\ shares'[Len(shares')].data.url = Href
      /\ \A k \in 1..MaxClicks :
           /\ ShareStep(k, "clipboard", "failed")
              => /\ Len(toasts') = Len(toasts) + 1
                 /\ toasts'[Len(toasts')].variant = "destructive"
                 /\ toasts'[Len(toasts')].title = "Share Failed"
                 /\ UNCHANGED <<product, loading, error, isWishlisted, clipboard>>
           /\ ShareStep(k, "clipboard", "ok")
              => /\ clipboard' = {Href}
                 /\ Len(toasts') = Len(toasts) + 1
                 /\ toasts'[Len(toasts')].variant # "destructive"
                 /\ toasts'[Len(toasts')].title = "Link Copied" ]_vars

\* one clipboard write has failed and another has succeeded
C11_Witness ==
  /\ ~hasShare
  /\ \E k \in DOMAIN shares : shares[k].kind = "clipboard" /\ shares[k].pc = "failed"
  /\ \E k \in DOMAIN shares : shares[k].kind = "clipboard" /\ shares[k].pc = "ok"
  /\ clipboard = {Href}
  /\ \E k \in DOMAIN toasts : toasts[k].title = "Share Failed"

\* C12: with a platform share capability, share invokes it and never the
\* clipboard; success emits exactly one confirmation notification; failure
\* emits no notification, attempts no clipboard write and changes no state.
C12_NativeShare ==
  [][ /\ hasShare => (clipboard' = {} /\ \A k \in DOMAIN shares' : shares'[k].kind = "native")
      /\ \A k \in 1..MaxClicks :
           /\ ShareStep(k, "native", "ok")
              => /\ toasts' = Append(toasts, SharedToast)
                 /\ UNCHANGED <<product, loading, error, isWishlisted, clipboard>>
           /\ ShareStep(k, "native", "failed")
              => /\ Len(shares') = Len(shares)
                 /\ UNCHANGED <<product, loading, error, isWishlisted, clipboard,
                                toasts>> ]_vars

\* a native share has failed and another has succeeded, with one notification
C12_Witness ==
  /\ hasShare
  /\ \E k \in DOMAIN shares : shares[k].kind = "native" /\ shares[k].pc = "failed"
  /\ \E k \in DOMAIN shares : shares[k].kind = "native" /\ shares[k].pc = "ok"
  /\ Cardinality({ k \in DOMAIN toasts : toasts[k].title = "Shared Successfully" }) = 1
  /\ clipboard = {}

\* a fault met while fetching or decoding, as opposed to a non-2xx status
TransportFault(i) ==
  /\ fetches[i].err # {}
  /\ (fetches[i].response = {} \/ ~Non2xx(TheValue(fetches[i].response)))

\* the fault is an Error whose message is not empty
CarriesMessage(f) == f.isError /\ f.message # ""

\* C13: the blank view (loading false, no error, product null) is unreachable:
\* once the fetch has settled, with any status, decoded body or fault, the
\* rendered view is Success or Error.
C13_BlankUnreachable ==
  \A i \in 1..MaxFetches : Settled(i) => view \in {"Product", "Error"}

\* C14: on a transport-level fault the error state is the fault's message when
\* it carries one and "Failed to fetch product" when it carries none; either
\* way it is a non-empty string that selects the Error view.
C14_TransportMessage ==
  \A i \in 1..MaxFetches :
    (Settled(i) /\ TransportFault(i))
      => LET f == TheValue(fetches[i].err)
         IN /\ error = {IF CarriesMessage(f) THEN f.message
                        ELSE "Failed to fetch product"}
            /\ error # {""}
            /\ view = "Error"

\* n is a whole number nearest to num / den (den > 0)
Nearest(n, num, den) == 2 * n * den - den <= 2 * num /\ 2 * num <= 2 * n * den + den

\* C15 as stated: for every product price the strike-through value shown is
\* price x 1.2 rounded to a whole number.
C15_StrikeIsPriceTimes1_2 ==
  \A sp \in shownPrices : Nearest(sp[2], TheValue(product).price * 12, 1000)

\* C15 as amended: the strike-through value shown is price x 83 x 1.2 rounded
\* to a whole number and the primary value is price x 83 rounded to a whole
\* number, both determined by price alone: two records with the same price
\* show the same two amounts whatever the other state is.
C15_StrikeIsConvertedPriceTimes1_2 ==
  \A sp \in shownPrices :
    LET price == TheValue(product).price
    IN /\ Nearest(sp[1], price * 83, 100)
       /\ Nearest(sp[2], price * 83 * 12, 1000)
       /\ \A q \in Products :
            q.price = price => sp = <<primaryPrice(q.price), strikePrice(q.price)>>

\* the product view shows 9126 and 10951 for the price 109.95
C15_Witness ==
  /\ view = "Product"
  /\ TheValue(product).price = 10995
  /\ shownPrices = {<<9126, 10951>>}
  /\ isWishlisted

Pending(i) == fetches[i].pc \in {"awaitFetch", "awaitJson"}

\* the outcome of fetch i has been applied to the component's state
Applied(i) ==
  /\ Settled(i)
  /\ ~loading
  /\ fetches[i].err = {} => product = TheValue(fetches[i].data)
  /\ fetches[i].err # {}
       => /\ error = {errorMessageOf(TheValue(fetches[i].err))}
          /\ \E k \in DOMAIN toasts :
               /\ toasts[k].variant = "destructive"
               /\ toasts[k].description = errorMessageOf(TheValue(fetches[i].err))

\* C16: a teardown does not cancel the fetch or discard its result: once the
\* component is torn down, the request (pending or further along) still
\* settles into the instance's state: product or error set, loading false and,
\* on failure, the destructive notification emitted.
C16_NoCancellation == (~mounted) ~> Applied(1)

\* the component is torn down while the request is still pending
C16_Witness == ~mounted /\ Pending(1) /\ loading

\* C17: in every state at most one of product and error is set, so the Error
\* view is never shown while a fetched product is held.
C17_ProductXorError ==
  /\ ~(product # {} /\ error # {})
  /\ view = "Error" => product = {}

\* a decode fault after a 2xx response: error set, product still null
C17_Witness ==
  /\ Settled(1)
  /\ fetches[1].response = {200}
  /\ error # {}
  /\ product = {}
  /\ view = "Error"

UserTitles ==
  {"Added to Cart", "Added to Wishlist", "Removed from Wishlist",
   "Shared Successfully", "Link Copied", "Share Failed"}

\* C18: the add-to-cart, wishlist and share handlers fire only while the
\* Success view is rendered; no user-action notification is emitted in the
\* Loading or Error view; wishlisted is false until a fetch has succeeded; and
\* the add-to-cart and wishlist notifications carry the title of a present
\* product.
C18_HandlersOnlyInSuccessView ==
  [][ /\ clicks' # clicks
         => (mounted /\ ~loading /\ (error = {} \/ error = {""}) /\ product # {})
      /\ (Len(toasts') > Len(toasts) /\ toasts'[Len(toasts')].title \in UserTitles)
         => /\ view = "Product"
            /\ view' = "Product"
      /\ (Len(toasts') > Len(toasts)
          /\ toasts'[Len(toasts')].title
               \in {"Added to Cart", "Added to Wishlist", "Removed from Wishlist"})
         => /\ product # {}
            /\ Contains(toasts'[Len(toasts')].description, TheValue(product).title)
      /\ isWishlisted'
         => \E i \in 1..MaxFetches :
              /\ fetches'[i].pc = "done"
              /\ fetches'[i].err = {}
              /\ product' # {} ]_vars

\* add-to-cart and wishlist have fired in the product view
C18_Witness ==
  /\ view = "Product"
  /\ isWishlisted
  /\ \E k \in DOMAIN toasts :
       /\ toasts[k].title = "Added to Cart"
       /\ Contains(toasts[k].description, "Slim Fit T-Shirt")

====
